---- MODULE Spec2Model ----
(***************************************************************************)
(* Playback orchestration of musicassettester: MusicSelector (track list   *)
(* and current index) and MusicPlayer (play / fade-out / interval state    *)
(* machine driven by a 60 Hz tick), modelled from the player package.      *)
(***************************************************************************)
EXTENDS Integers, Sequences, FiniteSets, TLC

VARIABLES
    musicFiles,        \* MusicSelector.musicFiles: sequence of paths
    currentIndex,      \* MusicSelector.currentIndex: 0-based, -1 when unset
    currentMusic,      \* MusicPlayer.currentMusic: NoMusic or the live handle
    state,             \* MusicPlayer.state
    counter,           \* MusicPlayer.counter (frames)
    isPaused,          \* MusicPlayer.isPaused
    loopDuration,      \* MusicPlayer.loopDuration, in 1/DurScale minutes
    intervalDuration,  \* MusicPlayer.intervalDuration, in 1/DurScale seconds
    volume,            \* MusicPlayer.volume, in 1/VolScale
    loadable,          \* environment: the paths LoadStream can open and decode
    openPlayers,       \* backend: players made by the PlayerFactory, not closed
    op,                \* name of the last operation called
    calls,             \* calls made on the audio backend by the last operation
    ret,               \* value returned by the last operation
    watcherCall,       \* the watcher thread's UpdateMusicFiles call: position
                       \* and locals
    mu,                \* MusicSelector.mu: the writer and the readers holding it
    selectorCalls,     \* per thread, its call on the selector: position, locals
    clock,             \* time.Now(), in units of 250 milliseconds
    dirs,              \* file system: per music directory, the files in it
    fsEvents,          \* file system: number of events raised so far
    watchers,          \* the DirectoryWatchers made by Watch, in call order
    notifying,         \* the notifyChange goroutines that have not finished
    invocations,       \* the callback invocations made so far, in order
    openFiles,         \* the paths of the files LoadStream opened, still open
    audioStream        \* the stream LoadStream returned last (p.audioStream)

vars == <<musicFiles, currentIndex, currentMusic, state, counter, isPaused,
          loopDuration, intervalDuration, volume, loadable, openPlayers, op,
          calls, ret, watcherCall, mu, selectorCalls, clock, dirs, fsEvents,
          watchers, notifying, invocations, openFiles, audioStream>>

\* the source files and streams; followed in LoaderSpec and StreamSpec only
fileVars == <<openFiles, audioStream>>

\* the file system and the directory watchers
watchVars == <<clock, dirs, fsEvents, watchers, notifying, invocations>>

\* the selector's lock and the calls in progress on the selector
lockVars == <<mu, selectorCalls>>

----------------------------------------------------------------------------
(* Bounds and program constants *)

\* the paths of the music directory, in the lexical order of filepath.Walk
PathOrder == <<"a.wav", "b.wav", "c.wav">>

Paths == {PathOrder[k] : k \in 1..Len(PathOrder)}

\* the longest track list of the engine specifications
MaxFiles == 2

\* the longest track list of the selector specification
MaxSelFiles == 3

\* ticks are explored up to this counter value in Playing and Interval
MaxCounter == 3

\* the number of file system events raised
MaxEvents == 2

\* the last instant of the clock
MaxClock == 2

\* source files are opened up to this number of open files
MaxOpenFiles == 3

\* width in bits of the Go int that holds p.counter (64 in the build); the
\* frame counts of the tick-only specification fit in it
IntBits == 8

MaxInt == 2 ^ (IntBits - 1) - 1

MinInt == -(2 ^ (IntBits - 1))

\* fadeOutDuration, in seconds
FadeOutSeconds == 2

\* durations are dyadic rationals n/DurScale, exact in float64
DurScale == 2 ^ 10

\* int(fadeOutDuration.Seconds() * 60)
fadeOutFrames == FadeOutSeconds * 60

\* volumes are rationals n/VolScale, so that every fade ratio is exact
VolScale == fadeOutFrames

DefaultLoopDuration == 5 * DurScale

DefaultIntervalDuration == 10 * DurScale


NoPath == ""

\* a nil currentMusic; a live handle is [path, playing, volume, closed];
\* closed records that Close has been called on the handle
NoMusic == [path |-> NoPath, playing |-> FALSE, volume |-> 0, closed |-> FALSE]

StateStopped == "Stopped"

StatePlaying == "Playing"

StateFadingOut == "FadingOut"

StateInterval == "Interval"

ListsUpTo(n) == UNION {[1..k -> Paths] : k \in 0..n}

\* position of a path in the walk order
WalkPos(path) == CHOOSE k \in 1..Len(PathOrder) : PathOrder[k] = path

\* the lists FindMusicFiles can return: no duplicates, in walk order
Lists ==
    {files \in ListsUpTo(MaxFiles) :
        \A i, j \in 1..Len(files) :
            i < j => WalkPos(files[i]) < WalkPos(files[j])}

\* the lists a caller can pass to MusicSelector.Update: any order, duplicates
SelLists == ListsUpTo(MaxSelFiles)

----------------------------------------------------------------------------
(* MusicSelector: operators over a record [musicFiles, currentIndex] *)

NewMusicSelector == [musicFiles |-> <<>>, currentIndex |-> -1]

HasSelection(s) == s.currentIndex >= 0 /\ s.currentIndex < Len(s.musicFiles)

\* the range loop of Update: index of the first element equal to path, from i
RECURSIVE FindFrom(_, _, _)
FindFrom(files, path, i) ==
    IF i >= Len(files) THEN -1
    ELSE IF files[i + 1] = path THEN i
    ELSE FindFrom(files, path, i + 1)

\* the range loop without its break: the last occurrence wins
RECURSIVE FindLastFrom(_, _, _)
FindLastFrom(files, path, i) ==
    IF i >= Len(files) THEN -1
    ELSE LET later == FindLastFrom(files, path, i + 1)
         IN IF later # -1 THEN later
            ELSE IF files[i + 1] = path THEN i ELSE -1

\* Update whose search loop lacks the break
SelectorUpdateNoBreak(s, newFiles) ==
    LET currentPath == IF s.currentIndex >= 0 /\ s.currentIndex < Len(s.musicFiles)
                       THEN s.musicFiles[s.currentIndex + 1]
                       ELSE ""
        found == IF currentPath # "" THEN FindLastFrom(newFiles, currentPath, 0)
                 ELSE -1
        newIndex == IF found = -1
                    THEN (IF Len(newFiles) > 0 THEN 0 ELSE -1)
                    ELSE found
    IN [sel |-> [musicFiles |-> newFiles, currentIndex |-> newIndex],
        indexChanged |-> s.currentIndex # newIndex]

\* Update that keeps the old index when the current path is gone
SelectorUpdateStaleIndex(s, newFiles) ==
    LET currentPath == IF s.currentIndex >= 0 /\ s.currentIndex < Len(s.musicFiles)
                       THEN s.musicFiles[s.currentIndex + 1]
                       ELSE ""
        found == IF currentPath # "" THEN FindFrom(newFiles, currentPath, 0)
                 ELSE -1
        newIndex == IF found = -1 THEN s.currentIndex ELSE found
    IN [sel |-> [musicFiles |-> newFiles, currentIndex |-> newIndex],
        indexChanged |-> s.currentIndex # newIndex]

SelectorUpdate(s, newFiles) ==
    LET currentPath == IF HasSelection(s) THEN s.musicFiles[s.currentIndex + 1]
                       ELSE NoPath
        found == IF currentPath # NoPath THEN FindFrom(newFiles, currentPath, 0)
                 ELSE -1
        newIndex == IF found = -1
                    THEN (IF Len(newFiles) > 0 THEN 0 ELSE -1)
                    ELSE found
    IN [sel |-> [musicFiles |-> newFiles, currentIndex |-> newIndex],
        indexChanged |-> s.currentIndex # newIndex]

CurrentFile(s) ==
    IF HasSelection(s)
    THEN [path |-> s.musicFiles[s.currentIndex + 1], ok |-> TRUE]
    ELSE [path |-> NoPath, ok |-> FALSE]

Files(s) == s.musicFiles

\* SelectNext wrapping one entry too late
SelectNextOffByOne(s) ==
    IF Len(s.musicFiles) = 0
    THEN [sel |-> [s EXCEPT !.currentIndex = -1], changed |-> FALSE]
    ELSE LET inc == s.currentIndex + 1
             next == IF inc > Len(s.musicFiles) THEN 0 ELSE inc
         IN [sel |-> [s EXCEPT !.currentIndex = next],
             changed |-> s.currentIndex # next]

SelectNext(s) ==
    IF Len(s.musicFiles) = 0
    THEN [sel |-> [s EXCEPT !.currentIndex = -1], changed |-> FALSE]
    ELSE LET inc == s.currentIndex + 1
             next == IF inc >= Len(s.musicFiles) THEN 0 ELSE inc
         IN [sel |-> [s EXCEPT !.currentIndex = next],
             changed |-> s.currentIndex # next]

\* SelectIndex without the upper bound check
SelectIndexNoUpperBound(s, index) ==
    IF index < 0
    THEN [sel |-> s, err |-> "OutOfRange"]
    ELSE [sel |-> [s EXCEPT !.currentIndex = index], err |-> "nil"]

SelectIndex(s, index) ==
    IF index < 0 \/ index >= Len(s.musicFiles)
    THEN [sel |-> s, err |-> "OutOfRange"]
    ELSE [sel |-> [s EXCEPT !.currentIndex = index], err |-> "nil"]

CurrentIndex(s) == s.currentIndex

\* the selector held in the variables
Sel == [musicFiles |-> musicFiles, currentIndex |-> currentIndex]

\* no UpdateMusicFiles call is running on the watcher thread
NoWatcherCall ==
    [pc |-> "idle", newFiles |-> <<>>, currentPath |-> NoPath,
     newPlayer |-> NoMusic]

\* const DefaultMusicDir MusicDirectory = "musics"
DefaultMusicDir == "musics"

\* the music directories of the model
MusicDirs == {DefaultMusicDir, "assets"}

\* no watcher exists, the directories are empty
NoWatching ==
    /\ clock = 0
    /\ dirs = [md \in MusicDirs |-> {}]
    /\ fsEvents = 0
    /\ watchers = <<>>
    /\ notifying = {}
    /\ invocations = <<>>

\* a nil io.ReadSeeker
NoStream == <<>>

\* no file is open, no stream exists
NoFiles ==
    /\ openFiles = <<>>
    /\ audioStream = NoStream

\* the two threads that share the selector
Threads == {"watcher", "host"}

NoThread == "none"

\* an unlocked sync.RWMutex
Unlocked == [writer |-> NoThread, readers |-> {}]

NoResult == [ok |-> FALSE, path |-> NoPath, index |-> -1, files |-> <<>>,
             err |-> "nil"]

\* the thread is not inside a selector method
NoSelectorCall ==
    [pc |-> "idle", method |-> "", newFiles |-> <<>>, index |-> -1,
     currentPath |-> NoPath, oldIndex |-> -1, newIndex |-> -1,
     entry |-> NewMusicSelector, result |-> NoResult]

\* no thread holds or waits for the selector's lock
NoLocking ==
    /\ mu = Unlocked
    /\ selectorCalls = [t \in Threads |-> NoSelectorCall]

EngineUnchanged ==
    UNCHANGED <<currentMusic, state, counter, isPaused, loopDuration,
                intervalDuration, volume, loadable, openPlayers, calls,
                watcherCall, lockVars, watchVars, fileVars>>

\* the engine fields before NewMusicPlayer has run
NoPlayer ==
    /\ musicFiles = NewMusicSelector.musicFiles
    /\ currentIndex = NewMusicSelector.currentIndex
    /\ currentMusic = NoMusic
    /\ state = StateStopped
    /\ counter = 0
    /\ isPaused = FALSE
    /\ loopDuration = DefaultLoopDuration
    /\ intervalDuration = DefaultIntervalDuration
    /\ volume = VolScale
    /\ loadable = Paths
    /\ openPlayers = 0
    /\ op = "NewMusicSelector"
    /\ calls = <<>>
    /\ ret = "nil"
    /\ watcherCall = NoWatcherCall
    /\ NoLocking
    /\ NoFiles

SelInit == NoPlayer /\ NoWatching

SelUpdate(newFiles) ==
    LET r == SelectorUpdate(Sel, newFiles)
    IN /\ musicFiles' = r.sel.musicFiles
       /\ currentIndex' = r.sel.currentIndex
       /\ op' = "Update"
       /\ ret' = IF r.indexChanged THEN "true" ELSE "false"
       /\ EngineUnchanged

SelSelectNext ==
    LET r == SelectNext(Sel)
    IN /\ musicFiles' = r.sel.musicFiles
       /\ currentIndex' = r.sel.currentIndex
       /\ op' = "SelectNext"
       /\ ret' = IF r.changed THEN "true" ELSE "false"
       /\ EngineUnchanged

SelSelectIndex(index) ==
    LET r == SelectIndex(Sel, index)
    IN /\ musicFiles' = r.sel.musicFiles
       /\ currentIndex' = r.sel.currentIndex
       /\ op' = "SelectIndex"
       /\ ret' = r.err
       /\ EngineUnchanged

SelNext ==
    \/ \E newFiles \in SelLists : SelUpdate(newFiles)
    \/ SelSelectNext
    \/ \E index \in -1..MaxSelFiles : SelSelectIndex(index)

SelSpec == SelInit /\ [][SelNext]_vars

\* the elements of a track list
Range(files) == {files[k] : k \in 1..Len(files)}

\* the 0-based index of the first occurrence of a path that occurs in files
FirstIndexOf(files, path) ==
    CHOOSE i \in 0..(Len(files) - 1) :
        /\ files[i + 1] = path
        /\ \A j \in 0..(i - 1) : files[j + 1] # path

\* C1: selection stability of MusicSelector.Update. Whenever Update(newFiles)
\* is called while a selection exists and the path at the current index
\* occurs in newFiles, afterwards the index is that of the first occurrence
\* of the path in newFiles and CurrentFile() returns (that path, true).
C1_SelectionStability ==
    [][\A newFiles \in SelLists :
        (/\ SelUpdate(newFiles)
         /\ HasSelection(Sel)
         /\ CurrentFile(Sel).path \in Range(newFiles))
        => /\ currentIndex' = FirstIndexOf(newFiles, CurrentFile(Sel).path)
           /\ CurrentFile(Sel)' = [path |-> CurrentFile(Sel).path, ok |-> TRUE]
           /\ CurrentIndex(Sel)' = FirstIndexOf(newFiles, CurrentFile(Sel).path)
      ]_vars

\* an Update moved the selection to index 2: only a path found there does that
C1_Witness ==
    /\ op = "Update"
    /\ ret = "true"
    /\ currentIndex = 2
    /\ musicFiles[1] # musicFiles[3]

\* C2: fallback of MusicSelector.Update. Whenever Update(newFiles) is called
\* while there is no selection or the current path does not occur in
\* newFiles, afterwards the index is 0 if newFiles is non-empty, and the
\* selection is unset (index -1, CurrentFile() not ok) if newFiles is empty.
C2_UpdateFallback ==
    [][\A newFiles \in SelLists :
        (/\ SelUpdate(newFiles)
         /\ (~HasSelection(Sel) \/ CurrentFile(Sel).path \notin Range(newFiles)))
        => IF newFiles # <<>>
           THEN CurrentIndex(Sel)' = 0
           ELSE CurrentIndex(Sel)' = -1 /\ ~CurrentFile(Sel)'.ok
      ]_vars

\* an Update emptied the library and dropped the selection that existed
C2_Witness ==
    /\ op = "Update"
    /\ ret = "true"
    /\ musicFiles = <<>>
    /\ currentIndex = -1

\* C3: selector invariant. Either the library is empty and the index is -1,
\* or the library is non-empty and 0 <= index < len(library); CurrentFile()
\* reports ok = false exactly when the library is empty.
C3_SelectorInvariant ==
    /\ \/ musicFiles = <<>> /\ currentIndex = -1
       \/ musicFiles # <<>> /\ currentIndex >= 0
                            /\ currentIndex < Len(musicFiles)
    /\ ~CurrentFile(Sel).ok <=> musicFiles = <<>>

\* a SelectIndex call failed on a library of two or more tracks
C3_Witness ==
    /\ op = "SelectIndex"
    /\ ret = "OutOfRange"
    /\ Len(musicFiles) >= 2
    /\ currentIndex = Len(musicFiles) - 1

----------------------------------------------------------------------------
(* MusicPlayer: operators over a record of all the fields *)

Fields ==
    [musicFiles |-> musicFiles, currentIndex |-> currentIndex,
     currentMusic |-> currentMusic, state |-> state, counter |-> counter,
     isPaused |-> isPaused, loopDuration |-> loopDuration,
     intervalDuration |-> intervalDuration, volume |-> volume,
     loadable |-> loadable, openPlayers |-> openPlayers, op |-> op,
     calls |-> calls, ret |-> ret]

SelOf(p) == [musicFiles |-> p.musicFiles, currentIndex |-> p.currentIndex]

WithSel(p, s) ==
    [p EXCEPT !.musicFiles = s.musicFiles, !.currentIndex = s.currentIndex]

\* a call on the PlayerFactory or on the handle, as the backend sees it
Call(p, name, arg) ==
    [p EXCEPT !.calls = Append(@, [op |-> name, arg |-> arg])]

\* Music.Play
MusicPlay(p) ==
    [Call(p, "Play", 0) EXCEPT !.currentMusic.playing = TRUE]

\* Music.Pause
MusicPause(p) ==
    [Call(p, "Pause", 0) EXCEPT !.currentMusic.playing = FALSE]

\* Music.SetVolume
MusicSetVolume(p, v) ==
    [Call(p, "SetVolume", v) EXCEPT !.currentMusic.volume = v]

\* Music.Close: the backend releases a player on the first Close it gets
MusicClose(p) ==
    [Call(p, "Close", 0) EXCEPT
        !.currentMusic.closed = TRUE,
        !.openPlayers = IF p.currentMusic.closed THEN @ ELSE @ - 1]

\* if p.currentMusic != nil { p.currentMusic.Close(); p.currentMusic = nil }
CloseCurrentMusic(p) ==
    IF p.currentMusic = NoMusic THEN p
    ELSE [MusicClose(p) EXCEPT !.currentMusic = NoMusic]

\* PlayerFactory.NewPlayer and NewMusic: a handle that is not playing yet
NewMusic(p, path) ==
    [Call(p, "NewPlayer", 0) EXCEPT
        !.currentMusic = [path |-> path, playing |-> FALSE, volume |-> VolScale,
                          closed |-> FALSE],
        !.openPlayers = @ + 1]

\* loadCurrentMusic overwriting the previous handle without closing it
loadCurrentMusicNoClose(p) ==
    LET cf == CurrentFile(SelOf(p))
    IN IF ~cf.ok
       THEN [CloseCurrentMusic(p) EXCEPT !.state = StateStopped,
                                         !.ret = "NoMusicSelected"]
       ELSE IF cf.path \notin p.loadable
       THEN [p EXCEPT !.currentMusic = NoMusic, !.ret = "LoadFailed"]
       ELSE LET started == MusicSetVolume(NewMusic(p, cf.path), p.volume)
            IN MusicPlay([started EXCEPT !.counter = 0,
                                         !.state = StatePlaying,
                                         !.isPaused = FALSE,
                                         !.ret = "nil"])

loadCurrentMusic(p) ==
    LET cf == CurrentFile(SelOf(p))
        closed == CloseCurrentMusic(p)
    IN IF ~cf.ok
       THEN [closed EXCEPT !.state = StateStopped, !.ret = "NoMusicSelected"]
       ELSE IF cf.path \notin p.loadable
       THEN [closed EXCEPT !.ret = "LoadFailed"]
       ELSE LET started == MusicSetVolume(NewMusic(closed, cf.path), p.volume)
            IN MusicPlay([started EXCEPT !.counter = 0,
                                         !.state = StatePlaying,
                                         !.isPaused = FALSE,
                                         !.ret = "nil"])

\* NewMusicPlayer that leaves the first load to the caller
NewMusicPlayerNoInitialLoad(initialMusicFiles, canLoad) ==
    [musicFiles |-> initialMusicFiles,
     currentIndex |-> IF Len(initialMusicFiles) > 0 THEN 0 ELSE -1,
     currentMusic |-> NoMusic,
     state |-> StateStopped,
     counter |-> 0,
     isPaused |-> FALSE,
     loopDuration |-> DefaultLoopDuration,
     intervalDuration |-> DefaultIntervalDuration,
     volume |-> VolScale,
     loadable |-> canLoad,
     openPlayers |-> 0,
     op |-> "NewMusicPlayer",
     calls |-> <<>>,
     ret |-> "nil"]

NewMusicPlayer(initialMusicFiles, canLoad) ==
    LET player == [musicFiles |-> NewMusicSelector.musicFiles,
                   currentIndex |-> NewMusicSelector.currentIndex,
                   currentMusic |-> NoMusic,
                   state |-> StateStopped,
                   counter |-> 0,
                   isPaused |-> FALSE,
                   loopDuration |-> DefaultLoopDuration,
                   intervalDuration |-> DefaultIntervalDuration,
                   volume |-> VolScale,
                   loadable |-> canLoad,
                   openPlayers |-> 0,
                   op |-> "NewMusicPlayer",
                   calls |-> <<>>,
                   ret |-> "nil"]
        u == SelectorUpdate(SelOf(player), initialMusicFiles)
        updated == WithSel(player, u.sel)
    IN IF u.indexChanged /\ CurrentFile(u.sel).ok
       THEN [loadCurrentMusic(updated) EXCEPT !.ret = "nil"]
       ELSE updated

\* UpdateMusicFiles that reloads only when a handle is active
UpdateMusicFilesOnlyWithHandle(p, newFiles) ==
    LET u == SelectorUpdate(SelOf(p), newFiles)
        updated == WithSel(p, u.sel)
    IN IF ~u.indexChanged THEN updated
       ELSE IF CurrentFile(u.sel).ok
       THEN IF p.currentMusic = NoMusic THEN updated
            ELSE [loadCurrentMusic(updated) EXCEPT !.ret = "nil"]
       ELSE [CloseCurrentMusic(updated) EXCEPT !.state = StateStopped,
                                               !.isPaused = FALSE]

\* UpdateMusicFiles that only loads: an emptied library keeps the handle
UpdateMusicFilesKeepingHandle(p, newFiles) ==
    LET u == SelectorUpdate(SelOf(p), newFiles)
        updated == WithSel(p, u.sel)
    IN IF u.indexChanged /\ CurrentFile(u.sel).ok
       THEN [loadCurrentMusic(updated) EXCEPT !.ret = "nil"]
       ELSE updated

UpdateMusicFiles(p, newFiles) ==
    LET u == SelectorUpdate(SelOf(p), newFiles)
        updated == WithSel(p, u.sel)
    IN IF ~u.indexChanged THEN updated
       ELSE IF CurrentFile(u.sel).ok
       THEN [loadCurrentMusic(updated) EXCEPT !.ret = "nil"]
       ELSE [CloseCurrentMusic(updated) EXCEPT !.state = StateStopped,
                                               !.isPaused = FALSE]

\* MusicPlayer.Close; closeFails is the outcome of the backend's Close. On an
\* error the engine returns it and keeps the handle Close was called on.
Close(p, closeFails) ==
    IF p.currentMusic = NoMusic THEN [p EXCEPT !.ret = "nil"]
    ELSE IF closeFails
    THEN [MusicClose(p) EXCEPT !.ret = "CloseFailed"]
    ELSE [CloseCurrentMusic(p) EXCEPT !.ret = "nil"]

SetLoopDurationMinutes(p, minutes) == [p EXCEPT !.loopDuration = minutes]

SetIntervalSeconds(p, seconds) == [p EXCEPT !.intervalDuration = seconds]

\* SetCurrentIndex loading the current track although the selection failed
SetCurrentIndexIgnoringError(p, index) ==
    LET r == SelectIndex(SelOf(p), index)
    IN IF r.err # "nil" THEN [loadCurrentMusic(p) EXCEPT !.ret = r.err]
       ELSE loadCurrentMusic(WithSel(p, r.sel))

SetCurrentIndex(p, index) ==
    LET r == SelectIndex(SelOf(p), index)
    IN IF r.err # "nil" THEN [p EXCEPT !.ret = r.err]
       ELSE loadCurrentMusic(WithSel(p, r.sel))

\* TogglePause that pauses again instead of resuming
TogglePauseNoResume(p) ==
    IF p.currentMusic = NoMusic THEN p
    ELSE [MusicPause(p) EXCEPT !.isPaused = TRUE]

TogglePause(p) ==
    IF p.currentMusic = NoMusic THEN p
    ELSE IF p.isPaused
    THEN [MusicPlay(p) EXCEPT !.isPaused = FALSE]
    ELSE [MusicPause(p) EXCEPT !.isPaused = TRUE]

SkipToNext(p) ==
    LET r == SelectNext(SelOf(p))
        selected == WithSel(p, r.sel)
    IN IF ~r.changed THEN [selected EXCEPT !.ret = "nil"]
       ELSE loadCurrentMusic([selected EXCEPT !.volume = VolScale])

\* the loop duration converted with one factor of 60 missing
loopDurationFramesAsSeconds(p) == (p.loopDuration * 60) \div DurScale

\* int(p.loopDuration * 60 * 60)
loopDurationFrames(p) == (p.loopDuration * 60 * 60) \div DurScale

\* int(p.intervalDuration * 60)
intervalFrames(p) == (p.intervalDuration * 60) \div DurScale

\* the fade ratio with the quotient taken on the integers
fadeRatioIntegerDivision(c) == VolScale - (c \div fadeOutFrames) * VolScale

\* 1.0 - float64(p.counter)/float64(fadeOutFrames), in 1/VolScale
fadeRatio(c) == VolScale - (c * VolScale) \div fadeOutFrames

\* p.counter++ on a Go int: wraps from MaxInt to MinInt
Increment(c) == IF c = MaxInt THEN MinInt ELSE c + 1

\* the Playing case going to the interval without the fade
UpdatePlayingSkippingFade(q) ==
    IF q.counter >= loopDurationFrames(q)
    THEN MusicPause([q EXCEPT !.state = StateInterval, !.counter = 0])
    ELSE q

\* case StatePlaying of Update, after p.counter++
UpdatePlaying(q) ==
    IF q.counter >= loopDurationFrames(q)
    THEN [q EXCEPT !.state = StateFadingOut, !.counter = 0]
    ELSE q

\* the fade case applying the volume before it tests the frame count
UpdateFadingOutVolumeFirst(q) ==
    LET faded == MusicSetVolume([q EXCEPT !.volume = fadeRatio(q.counter)],
                                fadeRatio(q.counter))
    IN IF q.counter >= fadeOutFrames
       THEN MusicPause([faded EXCEPT !.state = StateInterval, !.counter = 0])
       ELSE faded

\* case StateFadingOut of Update, after p.counter++
UpdateFadingOut(q) ==
    IF q.counter >= fadeOutFrames
    THEN MusicPause([q EXCEPT !.state = StateInterval, !.counter = 0])
    ELSE MusicSetVolume([q EXCEPT !.volume = fadeRatio(q.counter)],
                        fadeRatio(q.counter))

\* case StateInterval of Update, after p.counter++
UpdateInterval(q) ==
    IF q.counter >= intervalFrames(q)
    THEN LET skipped == SkipToNext([q EXCEPT !.volume = VolScale])
         IN IF skipped.ret # "nil"
            THEN [skipped EXCEPT !.ret = "SkipFailed"]
            ELSE skipped
    ELSE q

\* Update without the isPaused test
UpdateWhilePaused(p) ==
    IF p.currentMusic = NoMusic THEN [p EXCEPT !.ret = "nil"]
    ELSE LET q == [p EXCEPT !.counter = Increment(@), !.ret = "nil"]
         IN CASE q.state = StatePlaying -> UpdatePlaying(q)
              [] q.state = StateFadingOut -> UpdateFadingOut(q)
              [] q.state = StateInterval -> UpdateInterval(q)
              [] OTHER -> q

Update(p) ==
    IF p.currentMusic = NoMusic \/ p.isPaused THEN [p EXCEPT !.ret = "nil"]
    ELSE LET q == [p EXCEPT !.counter = Increment(@), !.ret = "nil"]
         IN CASE q.state = StatePlaying -> UpdatePlaying(q)
              [] q.state = StateFadingOut -> UpdateFadingOut(q)
              [] q.state = StateInterval -> UpdateInterval(q)
              [] OTHER -> q

----------------------------------------------------------------------------
(* The engine driven by its single owner: ticks and commands in any order *)

\* every operation starts with an empty call log and returns nil by default
Begin(name) == [Fields EXCEPT !.op = name, !.calls = <<>>, !.ret = "nil"]

\* the engine's fields become q, the watcher thread's call becomes w
InstallFields(q, w) ==
    /\ musicFiles' = q.musicFiles
    /\ currentIndex' = q.currentIndex
    /\ currentMusic' = q.currentMusic
    /\ state' = q.state
    /\ counter' = q.counter
    /\ isPaused' = q.isPaused
    /\ loopDuration' = q.loopDuration
    /\ intervalDuration' = q.intervalDuration
    /\ volume' = q.volume
    /\ loadable' = q.loadable
    /\ openPlayers' = q.openPlayers
    /\ op' = q.op
    /\ calls' = q.calls
    /\ ret' = q.ret
    /\ watcherCall' = w
    /\ UNCHANGED <<lockVars, watchVars>>

Install(q, w) == InstallFields(q, w) /\ UNCHANGED fileVars

\* an operation of the host loop
Become(q) == Install(q, watcherCall)

\* the variables hold the fields of q
HoldsFields(q) ==
    /\ musicFiles = q.musicFiles
    /\ currentIndex = q.currentIndex
    /\ currentMusic = q.currentMusic
    /\ state = q.state
    /\ counter = q.counter
    /\ isPaused = q.isPaused
    /\ loopDuration = q.loopDuration
    /\ intervalDuration = q.intervalDuration
    /\ volume = q.volume
    /\ loadable = q.loadable
    /\ openPlayers = q.openPlayers
    /\ op = q.op
    /\ calls = q.calls
    /\ ret = q.ret
    /\ watcherCall = NoWatcherCall
    /\ NoLocking
    /\ NoWatching

Holds(q) == HoldsFields(q) /\ NoFiles

\* the load outcomes explored: every track loads, or b.wav never does
LoadableSets == {Paths, Paths \ {"b.wav"}}

\* the host sets both durations once, right after construction
Configured(p, d) ==
    SetIntervalSeconds(SetLoopDurationMinutes(p, d.loop), d.interval)

\* the durations in effect: the defaults, or 1/1024 min and 35/1024 s
\* (3 and 2 frames)
Durations ==
    {[loop |-> DefaultLoopDuration, interval |-> DefaultIntervalDuration],
     [loop |-> 1, interval |-> 35]}

Init ==
    \E initialMusicFiles \in Lists, canLoad \in LoadableSets, d \in Durations :
        Holds(Configured(NewMusicPlayer(initialMusicFiles, canLoad), d))

TickIsNoOp == currentMusic = NoMusic \/ isPaused

Tick ==
    /\ TickIsNoOp \/ state = StateFadingOut \/ counter < MaxCounter
    /\ Become(Update(Begin("Update")))

DoTogglePause == Become(TogglePause(Begin("TogglePause")))

DoSkipToNext == Become(SkipToNext(Begin("SkipToNext")))

DoSetCurrentIndex(index) == Become(SetCurrentIndex(Begin("SetCurrentIndex"), index))

DoUpdateMusicFiles(newFiles) == Become(UpdateMusicFiles(Begin("UpdateMusicFiles"), newFiles))

\* Close on a backend whose Close succeeds
DoClose == Become(Close(Begin("Close"), FALSE))

Next ==
    \/ Tick
    \/ DoTogglePause
    \/ DoSkipToNext
    \/ DoClose
    \/ \E index \in -1..MaxFiles : DoSetCurrentIndex(index)
    \/ \E newFiles \in Lists : DoUpdateMusicFiles(newFiles)

Spec == Init /\ [][Next]_vars

\* the engine driven by ticks and the pause control only
TransportNext == Tick \/ DoTogglePause

TransportSpec == Init /\ [][TransportNext]_vars

\* the callback Root.Layout gives to the list's SetOnItemSelected
ItemSelected(p, index) ==
    IF index >= 0 /\ index < Len(Files(SelOf(p)))
    THEN LET set == SetCurrentIndex(p, index)
         IN IF set.ret # "nil" THEN set ELSE SkipToNext(set)
    ELSE p

\* the user selects the list item at index
DoItemSelected(index) == Become(ItemSelected(Begin("ItemSelected"), index))

\* the engine behind the list: ticks, item selections and library updates
UiNext ==
    \/ Tick
    \/ \E index \in -1..MaxFiles : DoItemSelected(index)
    \/ \E newFiles \in Lists : DoUpdateMusicFiles(newFiles)

UiSpec == Init /\ [][UiNext]_vars

\* Close on a backend whose Close reports an error
DoCloseFailing ==
    /\ currentMusic # NoMusic
    /\ Become(Close(Begin("Close"), TRUE))

\* the same owner on a backend whose Close can fail
CloseErrorNext == Next \/ DoCloseFailing

CloseErrorSpec == Init /\ [][CloseErrorNext]_vars

----------------------------------------------------------------------------
(* The engine left alone after construction: ticks only *)

\* the durations in effect while the engine runs alone: 1/1024 min and
\* 35/1024 s (3.5 and 2.05 frames, truncated to 3 and 2), or 34/1024 min and
\* 2040/1024 s (119.5 frames each, truncated to 119)
AutoDurations ==
    {[loop |-> 1, interval |-> 35], [loop |-> 34, interval |-> 2040]}

AutoInit ==
    \E initialMusicFiles \in Lists \ {<<>>}, d \in AutoDurations :
        Holds(Configured(NewMusicPlayer(initialMusicFiles, Paths), d))

AutoTick == Become(Update(Begin("Update")))

AutoNext == AutoTick

AutoSpec == AutoInit /\ [][AutoNext]_vars

FairAutoSpec == AutoSpec /\ WF_vars(AutoTick)

\* the same with one track of the library that never loads: LoadStream fails
\* on b.wav every time
BadTrackInit ==
    \E initialMusicFiles \in Lists, d \in AutoDurations :
        /\ Len(initialMusicFiles) >= 2
        /\ "b.wav" \in {initialMusicFiles[k] : k \in 1..Len(initialMusicFiles)}
        /\ Holds(Configured(NewMusicPlayer(initialMusicFiles,
                                           Paths \ {"b.wav"}), d))

\* the host loop ticks for ever (Root.Update, once per frame)
FairBadTrackSpec == BadTrackInit /\ [][AutoNext]_vars /\ WF_vars(AutoTick)

----------------------------------------------------------------------------
(* Properties of the engine *)

\* the operations recorded in the call log of the last operation
CallOps == {calls[k].op : k \in 1..Len(calls)}

\* the last operation was a tick that found a handle and no pause
ActiveTick == op' = "Update" /\ currentMusic # NoMusic /\ ~isPaused

\* every track of the library can be loaded
AllLoadable == Range(musicFiles) \subseteq loadable

\* C4: Playing -> FadingOut timing. Playing is always entered with counter 0;
\* every tick in Playing (handle active, not paused, loop duration unchanged)
\* finds counter < int(loopDuration*60*60), which is 18000 for the 5 minutes
\* a new engine starts with, and either keeps Playing with counter + 1 or,
\* exactly when the counter reaches that frame count, enters FadingOut with
\* counter 0.
C4_PlayingToFadingOut ==
    [][LET frames == (loopDuration * 60 * 60) \div DurScale
       IN /\ (state # StatePlaying /\ state' = StatePlaying) => counter' = 0
          /\ (ActiveTick /\ state = StatePlaying)
             => /\ loopDurationFrames(NewMusicPlayer(<<>>, {})) = 18000
                /\ loopDuration = 34 => frames = 119
                /\ counter < frames
                /\ IF counter + 1 < frames
                   THEN state' = StatePlaying /\ counter' = counter + 1
                   ELSE state' = StateFadingOut /\ counter' = 0
      ]_vars

\* a tick has just ended 119 frames of Playing
C4_Witness ==
    /\ op = "Update"
    /\ loopDuration = 34
    /\ state = StateFadingOut
    /\ counter = 0
    /\ currentMusic.playing

C6_IntervalToPlaying ==
    [][(/\ ActiveTick
        /\ state = StateInterval
        /\ Len(musicFiles) >= 1
        /\ AllLoadable
        /\ counter + 1 = (intervalDuration * 60) \div DurScale)
       => /\ currentIndex' = (currentIndex + 1) % Len(musicFiles)
          /\ "NewPlayer" \in CallOps'
          /\ state' = StatePlaying
          /\ counter' = 0
          /\ volume' = VolScale
      ]_vars

\* C7: auto-advance liveness. With N >= 1 loadable tracks and ticks only, the
\* engine is Playing infinitely often, and every index of the library is the
\* Playing track infinitely often.
C7_AutoAdvance ==
    \A i \in 0..(MaxFiles - 1) :
        []<>(i < Len(musicFiles) => (state = StatePlaying /\ currentIndex = i))

\* C8: SkipToNext. For a library of N >= 1 loadable tracks and from every
\* engine state, after SkipToNext the index is (i+1) mod N, a freshly loaded
\* handle is playing, state = Playing, counter = 0, volume = 1.0 and the
\* pause flag is false.
C8_SkipToNext ==
    [][(op' = "SkipToNext" /\ Len(musicFiles) >= 1 /\ AllLoadable)
       => /\ currentIndex' = (currentIndex + 1) % Len(musicFiles)
          /\ "NewPlayer" \in CallOps'
          /\ currentMusic' # NoMusic
          /\ currentMusic'.playing
          /\ state' = StatePlaying
          /\ counter' = 0
          /\ volume' = VolScale
          /\ ~isPaused'
      ]_vars

\* C9: a tick is a no-op when paused or without a handle. Such an Update
\* returns nil, calls nothing on the backend and leaves state, counter,
\* volume, pause flag, selection and handle unchanged.
C9_PausedTickIsNoOp ==
    [][(op' = "Update" /\ (isPaused \/ currentMusic = NoMusic))
       => /\ ret' = "nil"
          /\ calls' = <<>>
          /\ UNCHANGED <<state, counter, volume, isPaused, musicFiles,
                         currentIndex, currentMusic, loopDuration,
                         intervalDuration>>
      ]_vars

\* a tick ran while the engine was paused in the middle of a fade
C9_Witness ==
    /\ op = "Update"
    /\ isPaused
    /\ currentMusic # NoMusic
    /\ state = StateFadingOut
    /\ counter > 0

\* the fields a second TogglePause restores
PauseView(p) ==
    [isPaused |-> p.isPaused, state |-> p.state, counter |-> p.counter,
     volume |-> p.volume]

\* C10: TogglePause. With a handle it flips the pause flag, calls Pause when
\* the engine becomes paused and Play when it becomes unpaused, and changes
\* nothing else, so that two calls in a row restore pause flag, state, counter
\* and volume; without a handle it changes nothing.
C10_TogglePause ==
    /\ [](PauseView(TogglePause(TogglePause(Fields))) = PauseView(Fields))
    /\ [][op' = "TogglePause"
          => /\ UNCHANGED <<state, counter, volume, musicFiles, currentIndex,
                            loopDuration, intervalDuration>>
             /\ IF currentMusic = NoMusic
                THEN UNCHANGED <<isPaused, currentMusic>> /\ calls' = <<>>
                ELSE /\ isPaused' = ~isPaused
                     /\ calls' = <<[op |-> IF isPaused' THEN "Pause" ELSE "Play",
                                    arg |-> 0]>>
                     /\ currentMusic' =
                            [currentMusic EXCEPT !.playing = ~isPaused']
         ]_vars

\* a TogglePause has just resumed a paused fade
C10_Witness ==
    /\ op = "TogglePause"
    /\ ~isPaused
    /\ calls = <<[op |-> "Play", arg |-> 0]>>
    /\ state = StateFadingOut
    /\ counter > 0

C12_RampFromOneToZero ==
    [][/\ (ActiveTick /\ state = StateFadingOut /\ counter = 0)
          => (currentMusic.volume = VolScale \/ currentMusic'.volume = VolScale)
       /\ (ActiveTick /\ state = StateFadingOut /\ state' = StateInterval)
          => currentMusic'.volume = 0
      ]_vars

\* C12 amended: the first tick of a fade applies 1 - 1/120, and the tick that
\* ends the fade (the 120th) applies no volume and pauses a handle whose last
\* applied volume is 1/120, not 0.0.
C12_RampEndsAboveZero ==
    [][/\ (ActiveTick /\ state = StateFadingOut /\ counter = 0)
          => calls' = <<[op |-> "SetVolume", arg |-> VolScale - VolScale \div 120]>>
       /\ (ActiveTick /\ state = StateFadingOut /\ state' = StateInterval)
          => /\ 120 * currentMusic.volume = VolScale
             /\ "SetVolume" \notin CallOps'
             /\ currentMusic'.volume = currentMusic.volume
             /\ volume' = currentMusic.volume
             /\ ~currentMusic'.playing
      ]_vars

\* the fade has just ended: the paused handle keeps volume 1/120
C12_Witness ==
    /\ op = "Update"
    /\ state = StateInterval
    /\ counter = 0
    /\ currentMusic # NoMusic
    /\ ~currentMusic.playing
    /\ 120 * currentMusic.volume = VolScale
    /\ volume = currentMusic.volume

\* C13: volume is 1.0 whenever the engine is Playing. With every load
\* succeeding, in every state reachable by ticks, TogglePause, SkipToNext,
\* SetCurrentIndex and UpdateMusicFiles, state = Playing implies that the
\* engine volume is 1.0 and that the handle, if any, is at full volume.
C13_PlayingAtFullVolume ==
    (loadable = Paths /\ state = StatePlaying)
    => /\ volume = VolScale
       /\ currentMusic # NoMusic => currentMusic.volume = VolScale

\* C14: counter reset on state entry. Every operation (tick, SkipToNext,
\* SetCurrentIndex, UpdateMusicFiles, Close) that changes the engine state to
\* a different one leaves counter = 0, entries into Stopped included.
C14_CounterResetOnEntry ==
    [][state' # state => counter' = 0]_vars

\* the positions of the calls named name in the call log of the last operation
CallPositions(name) == {k \in 1..Len(calls) : calls[k].op = name}

\* C15: at most one playable handle. In every state reachable by
\* NewMusicPlayer, ticks, TogglePause, SkipToNext, SetCurrentIndex,
\* UpdateMusicFiles and Close, the players created by the PlayerFactory and
\* not yet closed number at most 1 (1 exactly when the engine holds a handle),
\* and an operation that calls NewPlayer while a handle exists has called
\* Close on that handle before.
C15_AtMostOneHandle ==
    /\ [](/\ openPlayers <= 1
          /\ openPlayers = IF currentMusic = NoMusic THEN 0 ELSE 1)
    /\ [][(currentMusic # NoMusic /\ CallPositions("NewPlayer")' # {})
          => \A n \in CallPositions("NewPlayer")' :
                \E c \in CallPositions("Close")' : c < n
         ]_vars

\* a reload has just replaced a live handle: Close, then NewPlayer
C15_Witness ==
    /\ op = "SetCurrentIndex"
    /\ Len(calls) >= 2
    /\ calls[1].op = "Close"
    /\ calls[2].op = "NewPlayer"
    /\ openPlayers = 1
    /\ currentMusic # NoMusic

\* C16: an out-of-range selection is rejected without effect. For every
\* library and every i with i < 0 or i >= len(library), SelectIndex(i) and
\* SetCurrentIndex(i) return an error and leave selection, engine state,
\* counter, volume, pause flag and handle unchanged (no backend call); for
\* every valid i the selection becomes i.
C16_OutOfRangeRejected ==
    /\ [](\A i \in -2..(MaxFiles + 1) :
            LET r == SelectIndex(Sel, i)
            IN IF i < 0 \/ i >= Len(musicFiles)
               THEN r.err # "nil" /\ r.sel = Sel
               ELSE /\ r.err = "nil"
                    /\ r.sel.currentIndex = i
                    /\ r.sel.musicFiles = musicFiles)
    /\ [][op' = "SetCurrentIndex" =>
          \A index \in -1..MaxFiles :
            DoSetCurrentIndex(index)
            => IF index < 0 \/ index >= Len(musicFiles)
               THEN /\ ret' # "nil"
                    /\ calls' = <<>>
                    /\ UNCHANGED <<musicFiles, currentIndex, state, counter,
                                   volume, isPaused, currentMusic, openPlayers>>
               ELSE currentIndex' = index /\ musicFiles' = musicFiles
         ]_vars

\* SetCurrentIndex has just been refused in the middle of a fade
C16_Witness ==
    /\ op = "SetCurrentIndex"
    /\ ret = "OutOfRange"
    /\ calls = <<>>
    /\ state = StateFadingOut
    /\ counter > 0
    /\ currentMusic # NoMusic
    /\ Len(musicFiles) = 2

\* the selector after n consecutive SelectNext calls
RECURSIVE SelectNextTimes(_, _)
SelectNextTimes(s, n) ==
    IF n = 0 THEN s ELSE SelectNextTimes(SelectNext(s).sel, n - 1)

\* C17: SelectNext cycles. On a library of N >= 1 entries with index i it
\* sets the index to (i+1) mod N, so that N consecutive calls return to the
\* original index; on an empty library the selection stays unset and
\* SelectNext returns false.
C17_SelectNextCycles ==
    /\ [](/\ Len(musicFiles) >= 1
             => /\ SelectNextTimes(Sel, Len(musicFiles)) = Sel
                /\ \A n \in 1..(Len(musicFiles) - 1) :
                       SelectNextTimes(Sel, n) # Sel
          /\ Len(musicFiles) = 0
             => /\ ~SelectNext(Sel).changed
                /\ ~HasSelection(SelectNext(Sel).sel))
    /\ [][SelSelectNext
          => /\ musicFiles' = musicFiles
             /\ IF Len(musicFiles) >= 1
                THEN currentIndex' = (currentIndex + 1) % Len(musicFiles)
                ELSE currentIndex' = -1 /\ ret' = "false"
         ]_vars

\* a SelectNext has just wrapped from the last of three entries to the first
C17_Witness ==
    /\ op = "SelectNext"
    /\ ret = "true"
    /\ Len(musicFiles) = 3
    /\ currentIndex = 0

\* C18: an empty library means silence. In every reachable state with an
\* empty library the engine holds no handle and is Stopped; and
\* UpdateMusicFiles with an empty list, in any state (paused or fading
\* included), closes the handle it finds, drops it and leaves state = Stopped
\* with the pause flag false.
C18_EmptyLibraryIsSilent ==
    /\ [](musicFiles = <<>>
          => currentMusic = NoMusic /\ state = StateStopped /\ openPlayers = 0)
    /\ [][(op' = "UpdateMusicFiles" /\ musicFiles' = <<>>)
          => /\ DoUpdateMusicFiles(<<>>)
             /\ currentIndex' = -1
             /\ currentMusic' = NoMusic
             /\ state' = StateStopped
             /\ ~isPaused'
             /\ calls' = IF currentMusic = NoMusic THEN <<>>
                         ELSE <<[op |-> "Close", arg |-> 0]>>
         ]_vars

\* the library has just been emptied in the middle of a fade
C18_Witness ==
    /\ op = "UpdateMusicFiles"
    /\ musicFiles = <<>>
    /\ calls = <<[op |-> "Close", arg |-> 0]>>
    /\ state = StateStopped
    /\ ~isPaused
    /\ volume < VolScale
    /\ counter > 0

\* C19: recovery from an empty library. From Stopped with an empty library
\* and no handle, UpdateMusicFiles(newFiles) with a non-empty list whose first
\* file loads leaves the engine Playing at index 0 with counter 0, an active
\* playing handle on that file and the pause flag false; a tick issued while
\* the library is empty never returns an error.
C19_RecoveryFromEmpty ==
    [][/\ (/\ op' = "UpdateMusicFiles"
           /\ musicFiles = <<>>
           /\ state = StateStopped
           /\ currentMusic = NoMusic)
          => \A newFiles \in Lists \ {<<>>} :
            (newFiles[1] \in loadable /\ DoUpdateMusicFiles(newFiles))
            => /\ state' = StatePlaying
               /\ currentIndex' = 0
               /\ counter' = 0
               /\ currentMusic' # NoMusic
               /\ currentMusic'.path = newFiles[1]
               /\ currentMusic'.playing
               /\ ~isPaused'
               /\ ret' = "nil"
       /\ (op' = "Update" /\ musicFiles = <<>>)
          => ret' = "nil" /\ calls' = <<>> /\ state' = StateStopped
      ]_vars

\* files have just appeared in a library that had been emptied
C19_Witness ==
    /\ op = "UpdateMusicFiles"
    /\ calls # <<>>
    /\ calls[1].op = "NewPlayer"
    /\ state = StatePlaying
    /\ currentIndex = 0
    /\ counter = 0
    /\ currentMusic.playing
    /\ volume < VolScale

\* the step ran loadCurrentMusic and the load failed: SetCurrentIndex,
\* SkipToNext and the Interval tick return the error, UpdateMusicFiles only
\* logs it
LoadFailedStep ==
    \/ ret' \in {"LoadFailed", "SkipFailed"}
    \/ /\ op' = "UpdateMusicFiles"
       /\ SelectorUpdate(Sel, musicFiles').indexChanged
       /\ CurrentFile(Sel').ok
       /\ CurrentFile(Sel').path \notin loadable

\* C20: a failed load falls back to Stopped. Whenever loadCurrentMusic fails
\* on the stream or the player (reached from SkipToNext, SetCurrentIndex,
\* UpdateMusicFiles or the Interval tick), the engine afterwards is Stopped
\* and holds no handle.
C20_FailedLoadStops ==
    [][LoadFailedStep => (state' = StateStopped /\ currentMusic' = NoMusic)]_vars

\* C21: one bad track does not stop playback of the rest. With N >= 2 tracks
\* of which exactly one never loads, and ticks only, every loadable track of
\* the library is the Playing track again and again, and no tick returns an
\* error (Root.Update hands the error of Update to the host loop, which ends).
C21_BadTrackIsSkipped ==
    /\ \A t \in Paths :
          []<>((t \in Range(musicFiles) /\ t \in loadable)
               => (state = StatePlaying /\ currentMusic.path = t))
    /\ [](op = "Update" => ret = "nil")

\* C22: engine Close stops the engine. After Close() returns nil, from any
\* state, the engine holds no handle and its state is Stopped, and a tick
\* that follows returns nil and changes nothing; and in every reachable state
\* Stopped implies that no handle is active.
C22_CloseStops ==
    /\ [](state = StateStopped => currentMusic = NoMusic)
    /\ [][/\ (op' = "Close" /\ ret' = "nil")
             => (currentMusic' = NoMusic /\ state' = StateStopped)
          /\ (op = "Close" /\ ret = "nil" /\ op' = "Update")
             => /\ ret' = "nil"
                /\ UNCHANGED <<state, counter, volume, isPaused,
                               currentMusic, currentIndex, musicFiles>>
         ]_vars

\* C24: NewMusicPlayer never fails. For every initial list it returns an
\* engine and a nil error with counter 0 and the pause flag false; the
\* engine is Playing at index 0 with an active handle exactly when the list
\* is non-empty and its first track loads, and otherwise Stopped with no
\* handle (index 0 for a non-empty list, unset for an empty one).
C24_NewMusicPlayerNeverFails ==
    op = "NewMusicPlayer"
    => /\ ret = "nil"
       /\ counter = 0
       /\ ~isPaused
       /\ IF musicFiles # <<>> /\ musicFiles[1] \in loadable
          THEN /\ state = StatePlaying
               /\ currentIndex = 0
               /\ currentMusic # NoMusic
               /\ currentMusic.path = musicFiles[1]
               /\ currentMusic.playing
          ELSE /\ state = StateStopped
               /\ currentMusic = NoMusic
               /\ currentIndex = IF musicFiles # <<>> THEN 0 ELSE -1

\* an engine has just been built on a list whose first track does not load
C24_Witness ==
    /\ op = "NewMusicPlayer"
    /\ Len(musicFiles) = 2
    /\ musicFiles[1] \notin loadable
    /\ state = StateStopped
    /\ currentIndex = 0

----------------------------------------------------------------------------
(* UpdateMusicFiles called from the watcher thread (files.go notifyChange
   runs the callback on its own goroutine) while the host loop ticks and
   commands the engine. MusicPlayer has no lock: the watcher's call is a
   sequence of steps, one per access to the engine's fields, and the host's
   operations run between them. The selector's methods are atomic under its
   own lock. *)

\* one step of the watcher thread's call from position w.pc
WatcherStep(p, w) ==
    LET cf == CurrentFile(SelOf(p))
        at(pc) == [w EXCEPT !.pc = pc]
    IN CASE w.pc = "Update" ->
              \* indexChanged := p.selector.Update(newFiles)
              LET u == SelectorUpdate(SelOf(p), w.newFiles)
              IN [p |-> WithSel(p, u.sel),
                  w |-> at(IF u.indexChanged THEN "CurrentFile" ELSE "done")]
         [] w.pc = "CurrentFile" ->
              \* if _, ok := p.selector.CurrentFile(); ok
              [p |-> p, w |-> at(IF cf.ok THEN "loadCurrentMusic" ELSE "stopClose")]
         [] w.pc = "stopClose" ->
              \* if p.currentMusic != nil { p.currentMusic.Close()
              IF p.currentMusic = NoMusic THEN [p |-> p, w |-> at("stopState")]
              ELSE [p |-> MusicClose(p), w |-> at("stopNil")]
         [] w.pc = "stopNil" ->
              [p |-> [p EXCEPT !.currentMusic = NoMusic], w |-> at("stopState")]
         [] w.pc = "stopState" ->
              [p |-> [p EXCEPT !.state = StateStopped, !.isPaused = FALSE],
               w |-> at("done")]
         [] w.pc = "loadCurrentMusic" ->
              \* currentPath, ok := p.selector.CurrentFile()
              [p |-> p,
               w |-> [at(IF cf.ok THEN "close" ELSE "unselectedClose")
                         EXCEPT !.currentPath = cf.path]]
         [] w.pc = "unselectedClose" ->
              IF p.currentMusic = NoMusic
              THEN [p |-> p, w |-> at("unselectedState")]
              ELSE [p |-> MusicClose(p), w |-> at("unselectedNil")]
         [] w.pc = "unselectedNil" ->
              [p |-> [p EXCEPT !.currentMusic = NoMusic],
               w |-> at("unselectedState")]
         [] w.pc = "unselectedState" ->
              [p |-> [p EXCEPT !.state = StateStopped], w |-> at("done")]
         [] w.pc = "close" ->
              \* if p.currentMusic != nil { p.currentMusic.Close()
              IF p.currentMusic = NoMusic THEN [p |-> p, w |-> at("NewPlayer")]
              ELSE [p |-> MusicClose(p), w |-> at("nil")]
         [] w.pc = "nil" ->
              [p |-> [p EXCEPT !.currentMusic = NoMusic], w |-> at("NewPlayer")]
         [] w.pc = "NewPlayer" ->
              \* LoadStream, NewInfiniteLoop, playerFactory.NewPlayer
              IF w.currentPath \notin p.loadable
              THEN [p |-> p, w |-> at("done")]
              ELSE [p |-> [Call(p, "NewPlayer", 0) EXCEPT !.openPlayers = @ + 1],
                    w |-> [at("NewMusic") EXCEPT
                              !.newPlayer = [path |-> w.currentPath,
                                             playing |-> FALSE,
                                             volume |-> VolScale,
                                             closed |-> FALSE]]]
         [] w.pc = "NewMusic" ->
              \* p.currentMusic = NewMusic(newPlayer)
              [p |-> [p EXCEPT !.currentMusic = w.newPlayer],
               w |-> [at("SetVolume") EXCEPT !.newPlayer = NoMusic]]
         [] w.pc = "SetVolume" ->
              \* p.currentMusic.SetVolume(p.volume); a nil handle panics
              IF p.currentMusic = NoMusic
              THEN [p |-> [Call(p, "SetVolume", p.volume) EXCEPT !.ret = "panic"],
                    w |-> at("done")]
              ELSE [p |-> MusicSetVolume(p, p.volume), w |-> at("reset")]
         [] w.pc = "reset" ->
              [p |-> [p EXCEPT !.counter = 0, !.state = StatePlaying,
                               !.isPaused = FALSE],
               w |-> at("Play")]
         [] w.pc = "Play" ->
              \* p.currentMusic.Play(); a nil handle panics
              IF p.currentMusic = NoMusic
              THEN [p |-> [Call(p, "Play", 0) EXCEPT !.ret = "panic"],
                    w |-> at("done")]
              ELSE [p |-> MusicPlay(p), w |-> at("done")]

\* the watcher thread calls UpdateMusicFiles(newFiles), once
WatcherCalls(newFiles) ==
    /\ watcherCall.pc = "idle"
    /\ UNCHANGED <<musicFiles, currentIndex, currentMusic, state, counter,
                   isPaused, loopDuration, intervalDuration, volume, loadable,
                   openPlayers, op, calls, ret, lockVars, watchVars,
                   fileVars>>
    /\ watcherCall' = [watcherCall EXCEPT !.pc = "Update", !.newFiles = newFiles]

\* the watcher thread runs the next step of its call
WatcherRuns ==
    /\ watcherCall.pc \notin {"idle", "done"}
    /\ LET r == WatcherStep(Begin("UpdateMusicFiles"), watcherCall)
       IN Install(r.p, r.w)

\* the host loop's operations of the contract
HostNext ==
    \/ Tick
    \/ DoTogglePause
    \/ DoSkipToNext
    \/ \E index \in -1..MaxFiles : DoSetCurrentIndex(index)

RaceInit ==
    \E initialMusicFiles \in Lists :
        Holds(NewMusicPlayer(initialMusicFiles, Paths))

RaceNext ==
    \/ HostNext
    \/ WatcherRuns
    \/ \E newFiles \in Lists : WatcherCalls(newFiles)

RaceSpec == RaceInit /\ [][RaceNext]_vars

----------------------------------------------------------------------------
(* MusicSelector under its sync.RWMutex: two threads call its methods, each
   method is a sequence of steps, one per access to musicFiles or
   currentIndex, bracketed by Lock/Unlock (writers) or RLock/RUnlock
   (readers). *)

WriterMethods == {"Update", "SelectNext", "SelectIndex"}

ReaderMethods == {"CurrentFile", "CurrentIndex", "Files"}

\* the methods each thread calls
MethodsOf(t) ==
    IF t = "watcher" THEN {"Update", "SelectNext", "SelectIndex"}
    ELSE {"CurrentFile", "CurrentIndex", "Files", "SelectNext"}

\* RLock succeeding although a writer holds the lock
CanRLockIgnoringWriter(m) == TRUE

\* sync.RWMutex.RLock succeeds when no writer holds the lock
CanRLock(m) == m.writer = NoThread

\* sync.RWMutex.Lock succeeds when nobody holds the lock
CanLock(m) == m.writer = NoThread /\ m.readers = {}

\* one step of a method's body on the selector s, c the call's position and
\* locals
SelectorStep(s, c) ==
    LET at(pc) == [c EXCEPT !.pc = pc]
        exit == IF c.method \in WriterMethods THEN "Unlock" ELSE "RUnlock"
        returns(r) == [at(exit) EXCEPT !.result = r]
        len == Len(s.musicFiles)
    IN CASE c.method = "Update" /\ c.pc = "1" ->
              \* currentPath, oldIndex
              [s |-> s,
               c |-> [at("2") EXCEPT
                         !.currentPath = IF HasSelection(s)
                                         THEN s.musicFiles[s.currentIndex + 1]
                                         ELSE NoPath,
                         !.oldIndex = s.currentIndex]]
         [] c.method = "Update" /\ c.pc = "2" ->
              \* s.musicFiles = newFiles
              [s |-> [s EXCEPT !.musicFiles = c.newFiles], c |-> at("3")]
         [] c.method = "Update" /\ c.pc = "3" ->
              \* the range loop and the default
              LET found == IF c.currentPath # NoPath
                           THEN FindFrom(s.musicFiles, c.currentPath, 0)
                           ELSE -1
              IN [s |-> s,
                  c |-> [at("4") EXCEPT
                            !.newIndex = IF found # -1 THEN found
                                         ELSE IF len > 0 THEN 0 ELSE -1]]
         [] c.method = "Update" /\ c.pc = "4" ->
              \* s.currentIndex = newIndex
              [s |-> [s EXCEPT !.currentIndex = c.newIndex],
               c |-> returns([NoResult EXCEPT !.ok = c.oldIndex # c.newIndex])]
         [] c.method = "SelectNext" /\ c.pc = "1" ->
              IF len = 0
              THEN [s |-> [s EXCEPT !.currentIndex = -1],
                    c |-> returns(NoResult)]
              ELSE [s |-> s, c |-> [at("2") EXCEPT !.oldIndex = s.currentIndex]]
         [] c.method = "SelectNext" /\ c.pc = "2" ->
              \* s.currentIndex++
              [s |-> [s EXCEPT !.currentIndex = @ + 1], c |-> at("3")]
         [] c.method = "SelectNext" /\ c.pc = "3" ->
              LET next == IF s.currentIndex >= len THEN 0 ELSE s.currentIndex
              IN [s |-> [s EXCEPT !.currentIndex = next],
                  c |-> returns([NoResult EXCEPT !.ok = c.oldIndex # next])]
         [] c.method = "SelectIndex" /\ c.pc = "1" ->
              IF c.index < 0 \/ c.index >= len
              THEN [s |-> s, c |-> returns([NoResult EXCEPT !.err = "OutOfRange"])]
              ELSE [s |-> s, c |-> at("2")]
         [] c.method = "SelectIndex" /\ c.pc = "2" ->
              [s |-> [s EXCEPT !.currentIndex = c.index], c |-> returns(NoResult)]
         [] c.method = "CurrentFile" /\ c.pc = "1" ->
              IF HasSelection(s) THEN [s |-> s, c |-> at("2")]
              ELSE [s |-> s, c |-> returns(NoResult)]
         [] c.method = "CurrentFile" /\ c.pc = "2" ->
              \* s.musicFiles[s.currentIndex]; out of range panics
              IF HasSelection(s)
              THEN [s |-> s,
                    c |-> returns([NoResult EXCEPT
                                      !.ok = TRUE,
                                      !.path = s.musicFiles[s.currentIndex + 1]])]
              ELSE [s |-> s, c |-> returns([NoResult EXCEPT !.err = "panic"])]
         [] c.method = "CurrentIndex" /\ c.pc = "1" ->
              [s |-> s, c |-> returns([NoResult EXCEPT !.index = s.currentIndex])]
         [] c.method = "Files" /\ c.pc = "1" ->
              [s |-> s, c |-> returns([NoResult EXCEPT !.files = s.musicFiles])]

\* what the call returns when its body runs in one piece on the selector s
SelectorCallResult(s, c) ==
    CASE c.method = "Update" ->
           LET r == SelectorUpdate(s, c.newFiles)
           IN [sel |-> r.sel, result |-> [NoResult EXCEPT !.ok = r.indexChanged]]
      [] c.method = "SelectNext" ->
           LET r == SelectNext(s)
           IN [sel |-> r.sel, result |-> [NoResult EXCEPT !.ok = r.changed]]
      [] c.method = "SelectIndex" ->
           LET r == SelectIndex(s, c.index)
           IN [sel |-> r.sel, result |-> [NoResult EXCEPT !.err = r.err]]
      [] c.method = "CurrentFile" ->
           LET r == CurrentFile(s)
           IN [sel |-> s, result |-> [NoResult EXCEPT !.ok = r.ok, !.path = r.path]]
      [] c.method = "CurrentIndex" ->
           [sel |-> s, result |-> [NoResult EXCEPT !.index = CurrentIndex(s)]]
      [] c.method = "Files" ->
           [sel |-> s, result |-> [NoResult EXCEPT !.files = Files(s)]]

LockUnchanged ==
    UNCHANGED <<currentMusic, state, counter, isPaused, loopDuration,
                intervalDuration, volume, loadable, openPlayers, calls,
                watcherCall, watchVars, fileVars>>

\* thread t calls a method and waits for the lock
SelectorCall(t, method, newFiles, index) ==
    /\ selectorCalls[t].pc = "idle"
    /\ selectorCalls' =
          [selectorCalls EXCEPT
              ![t] = [NoSelectorCall EXCEPT
                         !.pc = IF method \in WriterMethods THEN "Lock" ELSE "RLock",
                         !.method = method,
                         !.newFiles = newFiles,
                         !.index = index]]
    /\ UNCHANGED <<musicFiles, currentIndex, mu, op, ret>>
    /\ LockUnchanged

\* s.mu.Lock() / s.mu.RLock() returns
SelectorLock(t) ==
    /\ \/ /\ selectorCalls[t].pc = "Lock"
          /\ CanLock(mu)
          /\ mu' = [mu EXCEPT !.writer = t]
       \/ /\ selectorCalls[t].pc = "RLock"
          /\ CanRLock(mu)
          /\ mu' = [mu EXCEPT !.readers = @ \cup {t}]
    /\ selectorCalls' = [selectorCalls EXCEPT ![t].pc = "1", ![t].entry = Sel]
    /\ UNCHANGED <<musicFiles, currentIndex, op, ret>>
    /\ LockUnchanged

\* thread t runs the next step of the method's body
SelectorRuns(t) ==
    /\ selectorCalls[t].pc \notin {"idle", "Lock", "RLock", "Unlock", "RUnlock"}
    /\ LET r == SelectorStep(Sel, selectorCalls[t])
       IN /\ musicFiles' = r.s.musicFiles
          /\ currentIndex' = r.s.currentIndex
          /\ selectorCalls' = [selectorCalls EXCEPT ![t] = r.c]
    /\ UNCHANGED <<mu, op, ret>>
    /\ LockUnchanged

\* the deferred s.mu.Unlock() / s.mu.RUnlock(), and the return
SelectorUnlock(t) ==
    /\ \/ /\ selectorCalls[t].pc = "Unlock"
          /\ mu' = [mu EXCEPT !.writer = NoThread]
       \/ /\ selectorCalls[t].pc = "RUnlock"
          /\ mu' = [mu EXCEPT !.readers = @ \ {t}]
    /\ selectorCalls' = [selectorCalls EXCEPT ![t].pc = "idle"]
    /\ op' = selectorCalls[t].method
    /\ ret' = selectorCalls[t].result.err
    /\ UNCHANGED <<musicFiles, currentIndex>>
    /\ LockUnchanged

LockNext ==
    \E t \in Threads :
        \/ \E method \in MethodsOf(t) \ {"Update", "SelectIndex"} :
               SelectorCall(t, method, <<>>, -1)
        \/ \E newFiles \in Lists :
               "Update" \in MethodsOf(t) /\ SelectorCall(t, "Update", newFiles, -1)
        \/ \E index \in -1..MaxFiles :
               "SelectIndex" \in MethodsOf(t) /\ SelectorCall(t, "SelectIndex", <<>>, index)
        \/ SelectorLock(t)
        \/ SelectorRuns(t)
        \/ SelectorUnlock(t)

LockSpec == SelInit /\ [][LockNext]_vars

----------------------------------------------------------------------------
(* DirectoryWatcher (files.go). A path is <<directory, file name>>; every
   name of the model is a regular file directly in a music directory. Time
   is counted in units of 250 milliseconds. Walking a directory never
   fails. *)

\* const debounceInterval = 500 * time.Millisecond, in units of 250 ms
debounceInterval == 2

\* the file names of the model, in the lexical order of filepath.Walk
FileOrder == <<".c.wav", "a.WAV", "b.txt">>

FileNames == {FileOrder[k] : k \in 1..Len(FileOrder)}

FilePaths == MusicDirs \X FileNames

\* filepath.Base
Base(path) == path[2]

\* strings.HasPrefix(name, ".")
HasDotPrefix(name) == name = ".c.wav"

\* strings.ToLower(filepath.Ext(path))
LowerExt(path) ==
    CASE Base(path) = ".c.wav" -> ".wav"
      [] Base(path) = "a.WAV" -> ".wav"
      [] Base(path) = "b.txt" -> ".txt"
      [] Base(path) = "d.ogg" -> ".ogg"
      [] Base(path) = "e.mp3" -> ".mp3"

IsWavFile(path) == LowerExt(path) = ".wav"

IsOggFile(path) == LowerExt(path) = ".ogg"

IsMp3File(path) == LowerExt(path) = ".mp3"

\* the walk of FindMusicFiles over the names from position k on
RECURSIVE WalkFrom(_, _, _)
WalkFrom(md, present, k) ==
    IF k > Len(FileOrder) THEN <<>>
    ELSE LET path == <<md, FileOrder[k]>>
             rest == WalkFrom(md, present, k + 1)
         IN IF FileOrder[k] \in present
               /\ (IsWavFile(path) \/ IsOggFile(path) \/ IsMp3File(path))
            THEN <<path>> \o rest
            ELSE rest

\* MusicDirectory.FindMusicFiles on the file system fs; a missing directory
\* is created empty
FindMusicFiles(md, fs) == WalkFrom(md, fs[md], 1)

NoTime == -1

NoEvent == [Name |-> <<"", "">>, Op |-> "", id |-> 0]

\* md.Watch(callback): NewDirectoryWatcher starts watchLoop, watchDirectory
\* adds the directory to the fsnotify watcher.
\* lateEvent records that the event in hand was received after close(done),
\* seen the time at which the loop last handled a create or remove event of
\* each path.
Watch(md, callback) ==
    [callback |-> callback,
     debounceMap |-> [path \in FilePaths |-> NoTime],
     done |-> FALSE,
     watched |-> {md},
     Events |-> <<>>,
     closed |-> FALSE,
     loop |-> "select",
     event |-> NoEvent,
     lateEvent |-> FALSE,
     seen |-> [path \in FilePaths |-> NoTime],
     close |-> "idle"]

\* the event handling of watchLoop with a debounce map that is never written
HandleEventNotRecording(dw, now) ==
    LET e == dw.event
        continue == [dw EXCEPT !.loop = "select", !.event = NoEvent]
        lastEvent == dw.debounceMap[e.Name]
        exists == lastEvent # NoTime
    IN IF HasDotPrefix(Base(e.Name)) THEN [dw |-> continue, notify |-> FALSE]
       ELSE IF e.Op \notin {"Create", "Remove"}
       THEN [dw |-> continue, notify |-> FALSE]
       ELSE [dw |-> continue,
             notify |-> ~(exists /\ now - lastEvent < debounceInterval)]

\* the body of 'case event, ok := <-dw.watcher.Events' for the event in
\* hand; notify says whether 'go dw.notifyChange()' is reached
HandleEvent(dw, now) ==
    LET e == dw.event
        continue == [dw EXCEPT !.loop = "select", !.event = NoEvent]
        lastEvent == dw.debounceMap[e.Name]
        exists == lastEvent # NoTime
        recorded == [continue EXCEPT !.debounceMap[e.Name] = now]
    IN IF HasDotPrefix(Base(e.Name)) THEN [dw |-> continue, notify |-> FALSE]
       ELSE IF e.Op \notin {"Create", "Remove"}
       THEN [dw |-> continue, notify |-> FALSE]
       ELSE [dw |-> recorded,
             notify |-> ~(exists /\ now - lastEvent < debounceInterval)]

\* notifyChange invoking the callback twice
NotifyChangeTwice(dw, i, g) ==
    IF dw.callback = "nil" THEN <<>>
    ELSE LET invocation == [dw |-> i, callback |-> dw.callback,
                            files |-> g.files, event |-> g.event]
         IN <<invocation, invocation>>

\* the invocations made by 'if dw.callback != nil { dw.callback(files) }'
NotifyChange(dw, i, g) ==
    IF dw.callback = "nil" THEN <<>>
    ELSE <<[dw |-> i, callback |-> dw.callback, files |-> g.files,
            event |-> g.event]>>

WatchUnchanged ==
    UNCHANGED <<musicFiles, currentIndex, currentMusic, state, counter,
                isPaused, loopDuration, intervalDuration, volume, loadable,
                openPlayers, op, calls, ret, watcherCall, lockVars,
                fileVars>>

\* fsnotify delivers the event to every open watcher that watches md
Deliver(md, name, fileOp) ==
    /\ fsEvents' = fsEvents + 1
    /\ watchers' =
          [i \in DOMAIN watchers |->
              IF md \in watchers[i].watched /\ ~watchers[i].closed
              THEN [watchers[i] EXCEPT
                       !.Events = Append(@, [Name |-> <<md, name>>,
                                             Op |-> fileOp,
                                             id |-> fsEvents + 1])]
              ELSE watchers[i]]

\* a file of a watched directory is created or removed
FsChange(md, name) ==
    /\ fsEvents < MaxEvents
    /\ \E i \in DOMAIN watchers : md \in watchers[i].watched
    /\ dirs' = [dirs EXCEPT ![md] = IF name \in @ THEN @ \ {name}
                                     ELSE @ \cup {name}]
    /\ Deliver(md, name, IF name \in dirs[md] THEN "Remove" ELSE "Create")
    /\ UNCHANGED <<clock, notifying, invocations>>
    /\ WatchUnchanged

\* a file of a watched directory is written
FsWrite(md, name) ==
    /\ fsEvents < MaxEvents
    /\ \E i \in DOMAIN watchers : md \in watchers[i].watched
    /\ name \in dirs[md]
    /\ Deliver(md, name, "Write")
    /\ UNCHANGED <<clock, dirs, notifying, invocations>>
    /\ WatchUnchanged

\* time passes
Sleep ==
    /\ clock < MaxClock
    /\ clock' = clock + 1
    /\ UNCHANGED <<dirs, fsEvents, watchers, notifying, invocations>>
    /\ WatchUnchanged

\* select: 'case event, ok := <-dw.watcher.Events' with ok
WatchLoopReceives(i) ==
    /\ watchers[i].loop = "select"
    /\ ~watchers[i].closed
    /\ watchers[i].Events # <<>>
    /\ watchers' = [watchers EXCEPT
                       ![i].loop = "event",
                       ![i].event = Head(watchers[i].Events),
                       ![i].Events = Tail(watchers[i].Events),
                       ![i].lateEvent = watchers[i].done]
    /\ UNCHANGED <<clock, dirs, fsEvents, notifying, invocations>>
    /\ WatchUnchanged

\* select: 'case <-dw.done', or a channel of the closed fsnotify watcher
WatchLoopReturns(i) ==
    /\ watchers[i].loop = "select"
    /\ watchers[i].done \/ watchers[i].closed
    /\ watchers' = [watchers EXCEPT ![i].loop = "returned"]
    /\ UNCHANGED <<clock, dirs, fsEvents, notifying, invocations>>
    /\ WatchUnchanged

\* the loop handles the event in hand
WatchLoopHandles(i) ==
    /\ watchers[i].loop = "event"
    /\ LET r == HandleEvent(watchers[i], clock)
           e == watchers[i].event
       IN /\ watchers' =
                [watchers EXCEPT
                    ![i] = IF e.Op \in {"Create", "Remove"}
                           THEN [r.dw EXCEPT !.seen[e.Name] = clock]
                           ELSE r.dw]
          /\ notifying' =
                IF r.notify
                THEN notifying \cup {[dw |-> i, event |-> watchers[i].event.id,
                                      pc |-> "FindMusicFiles", files |-> <<>>]}
                ELSE notifying
    /\ UNCHANGED <<clock, dirs, fsEvents, invocations>>
    /\ WatchUnchanged

watchLoop(i) ==
    \/ WatchLoopReceives(i)
    \/ WatchLoopReturns(i)
    \/ WatchLoopHandles(i)

\* notifyChange: files, err := DefaultMusicDir.FindMusicFiles()
NotifyChangeScans(g) ==
    /\ g.pc = "FindMusicFiles"
    /\ notifying' = (notifying \ {g})
                       \cup {[g EXCEPT !.pc = "callback",
                                       !.files = FindMusicFiles(DefaultMusicDir, dirs)]}
    /\ UNCHANGED <<clock, dirs, fsEvents, watchers, invocations>>
    /\ WatchUnchanged

\* notifyChange: the callback
NotifyChangeCalls(g) ==
    /\ g.pc = "callback"
    /\ notifying' = notifying \ {g}
    /\ invocations' = invocations \o NotifyChange(watchers[g.dw], g.dw, g)
    /\ UNCHANGED <<clock, dirs, fsEvents, watchers>>
    /\ WatchUnchanged

\* DirectoryWatcher.Close: close(dw.done)
CloseDone(i) ==
    /\ watchers[i].close = "idle"
    /\ watchers' = [watchers EXCEPT ![i].done = TRUE,
                                    ![i].close = "watcher.Close"]
    /\ UNCHANGED <<clock, dirs, fsEvents, notifying, invocations>>
    /\ WatchUnchanged

\* DirectoryWatcher.Close: return dw.watcher.Close()
CloseWatcher(i) ==
    /\ watchers[i].close = "watcher.Close"
    /\ watchers' = [watchers EXCEPT ![i].closed = TRUE,
                                    ![i].close = "returned"]
    /\ UNCHANGED <<clock, dirs, fsEvents, notifying, invocations>>
    /\ WatchUnchanged

\* one watcher, made by md.Watch(callback)
WatchInit ==
    /\ NoPlayer
    /\ clock = 0
    /\ dirs = [md \in MusicDirs |-> {}]
    /\ fsEvents = 0
    /\ \E md \in MusicDirs : watchers = <<Watch(md, "h1")>>
    /\ notifying = {}
    /\ invocations = <<>>

WatchNext ==
    \/ Sleep
    \/ \E md \in MusicDirs, name \in FileNames : FsChange(md, name)
    \/ \E md \in MusicDirs, name \in FileNames : FsWrite(md, name)
    \/ \E i \in DOMAIN watchers : watchLoop(i)
    \/ \E g \in notifying : NotifyChangeScans(g)
    \/ \E g \in notifying : NotifyChangeCalls(g)
    \/ \E i \in DOMAIN watchers : CloseDone(i)
    \/ \E i \in DOMAIN watchers : CloseWatcher(i)

WatchSpec == WatchInit /\ [][WatchNext]_vars

\* the goroutines of the watchers are scheduled, and Close runs to its end
WatchFairness ==
    \A i \in {1} :
        /\ WF_vars(watchLoop(i))
        /\ WF_vars(CloseWatcher(i))

FairWatchSpec == WatchSpec /\ WatchFairness

\* two handlers on one directory: Watch takes one callback, so each handler
\* is given to a Watch call of its own
FanOutInit ==
    /\ NoPlayer
    /\ clock = 0
    /\ dirs = [md \in MusicDirs |-> {}]
    /\ fsEvents = 0
    /\ watchers = <<Watch(DefaultMusicDir, "h1"), Watch(DefaultMusicDir, "h2")>>
    /\ notifying = {}
    /\ invocations = <<>>

\* files come and go, the two watchers run; nobody closes them
FanOutNext ==
    \/ \E name \in FileNames : FsChange(DefaultMusicDir, name)
    \/ \E i \in DOMAIN watchers : watchLoop(i)
    \/ \E g \in notifying : NotifyChangeScans(g)
    \/ \E g \in notifying : NotifyChangeCalls(g)

FanOutSpec == FanOutInit /\ [][FanOutNext]_vars

----------------------------------------------------------------------------
(* MusicLoader.LoadStream. The file at a path is missing (os.Open fails),
   corrupt (the decoder rejects it) or good. *)

FileKinds == {"missing", "corrupt", "good"}

\* the paths given to LoadStream
LoaderPaths == MusicDirs \X {"a.WAV", "b.txt", "d.ogg", "e.mp3"}

\* LoadStream that returns the decoder's error without closing the file
LoadStreamKeepingFile(filePath, kind) ==
    LET open == [op |-> "Open", arg |-> IF kind = "missing" THEN 0 ELSE 1]
        decode == [op |-> "Decode", arg |-> IF kind = "good" THEN 1 ELSE 0]
        close == [op |-> "Close", arg |-> 0]
    IN IF kind = "missing"
       THEN [stream |-> NoStream, err |-> "OpenFailed", calls |-> <<open>>]
       ELSE IF ~(IsWavFile(filePath) \/ IsOggFile(filePath) \/ IsMp3File(filePath))
       THEN [stream |-> NoStream, err |-> "UnsupportedFormat",
             calls |-> <<open, close>>]
       ELSE IF kind # "good"
       THEN [stream |-> NoStream, err |-> "DecodeError",
             calls |-> <<open, decode>>]
       ELSE [stream |-> <<filePath>>, err |-> "nil", calls |-> <<open, decode>>]

\* LoadStream: the stream and error it returns, and its calls on the file
\* (Open and Decode with argument 1 when they succeed)
LoadStream(filePath, kind) ==
    LET open == [op |-> "Open", arg |-> IF kind = "missing" THEN 0 ELSE 1]
        decode == [op |-> "Decode", arg |-> IF kind = "good" THEN 1 ELSE 0]
        close == [op |-> "Close", arg |-> 0]
    IN IF kind = "missing"
       THEN [stream |-> NoStream, err |-> "OpenFailed", calls |-> <<open>>]
       ELSE IF ~(IsWavFile(filePath) \/ IsOggFile(filePath) \/ IsMp3File(filePath))
       THEN [stream |-> NoStream, err |-> "UnsupportedFormat",
             calls |-> <<open, close>>]
       ELSE IF kind # "good"
       THEN [stream |-> NoStream, err |-> "DecodeError",
             calls |-> <<open, decode, close>>]
       ELSE [stream |-> <<filePath>>, err |-> "nil", calls |-> <<open, decode>>]

\* the operating system's table of open files after the calls of log on the
\* file at filePath
FilesAfter(files, filePath, log) ==
    LET opened == \E k \in DOMAIN log : log[k].op = "Open" /\ log[k].arg = 1
        closed == \E k \in DOMAIN log : log[k].op = "Close"
    IN IF opened /\ ~closed THEN Append(files, filePath) ELSE files

LoaderUnchanged ==
    UNCHANGED <<musicFiles, currentIndex, currentMusic, state, counter,
                isPaused, loopDuration, intervalDuration, volume, loadable,
                openPlayers, watcherCall, lockVars, watchVars>>

\* a caller loads the file at filePath
DoLoadStream(filePath, kind) ==
    /\ Len(openFiles) < MaxOpenFiles
    /\ LET r == LoadStream(filePath, kind)
       IN /\ op' = "LoadStream"
          /\ ret' = r.err
          /\ calls' = r.calls
          /\ audioStream' = r.stream
          /\ openFiles' = FilesAfter(openFiles, filePath, r.calls)
    /\ LoaderUnchanged

LoaderNext ==
    \E filePath \in LoaderPaths, kind \in FileKinds : DoLoadStream(filePath, kind)

LoaderSpec == SelInit /\ [][LoaderNext]_vars

----------------------------------------------------------------------------
(* The engine with the source files of its tracks: loadCurrentMusic keeps the
   stream of a successful LoadStream in p.audioStream and hands it to the
   player factory; Player.Close, Music.Close and MusicPlayer.Close close the
   player only. *)

\* the operation that led to q loaded a track: its only NewPlayer call
\* follows the successful LoadStream of the track it now holds
LoadedTrack(q) == \E k \in DOMAIN q.calls : q.calls[k].op = "NewPlayer"

\* the table of open files after the operation that led to q: a successful
\* LoadStream leaves the file of its stream open
FilesOf(files, q) ==
    IF LoadedTrack(q)
    THEN Append(files, q.currentMusic.path)
    ELSE files

\* p.audioStream after the operation that led to q
StreamOf(stream, q) ==
    IF LoadedTrack(q) THEN <<q.currentMusic.path>> ELSE stream

\* the engine becomes q and the files follow
BecomeWithFiles(q) ==
    /\ Len(openFiles) < MaxOpenFiles
    /\ InstallFields(q, watcherCall)
    /\ openFiles' = FilesOf(openFiles, q)
    /\ audioStream' = StreamOf(audioStream, q)

\* the engine with durations of 3 and 2 frames, every file loadable
StreamInit ==
    \E initialMusicFiles \in Lists, d \in {[loop |-> 1, interval |-> 35]} :
        LET q == Configured(NewMusicPlayer(initialMusicFiles, Paths), d)
        IN /\ HoldsFields(q)
           /\ openFiles = FilesOf(<<>>, q)
           /\ audioStream = StreamOf(NoStream, q)

StreamTick ==
    /\ TickIsNoOp \/ state = StateFadingOut \/ counter < MaxCounter
    /\ BecomeWithFiles(Update(Begin("Update")))

StreamTogglePause == BecomeWithFiles(TogglePause(Begin("TogglePause")))

StreamSkipToNext == BecomeWithFiles(SkipToNext(Begin("SkipToNext")))

StreamSetCurrentIndex(index) ==
    BecomeWithFiles(SetCurrentIndex(Begin("SetCurrentIndex"), index))

StreamUpdateMusicFiles(newFiles) ==
    BecomeWithFiles(UpdateMusicFiles(Begin("UpdateMusicFiles"), newFiles))

StreamClose == BecomeWithFiles(Close(Begin("Close"), FALSE))

StreamNext ==
    \/ StreamTick
    \/ StreamTogglePause
    \/ StreamSkipToNext
    \/ StreamClose
    \/ \E index \in -1..MaxFiles : StreamSetCurrentIndex(index)
    \/ \E newFiles \in Lists : StreamUpdateMusicFiles(newFiles)

StreamSpec == StreamInit /\ [][StreamNext]_vars

\* the calls the last operation made on the handle it found: those before
\* its first NewPlayer
RECURSIVE CallsBeforeNewPlayer(_)
CallsBeforeNewPlayer(log) ==
    IF log = <<>> \/ Head(log).op = "NewPlayer" THEN <<>>
    ELSE <<Head(log)>> \o CallsBeforeNewPlayer(Tail(log))

\* C23: engine Close never leaves a half-torn-down handle. After Close()
\* returns, whether the handle's Close succeeded or failed, the engine no
\* longer references the handle, and no operation calls Play, Pause,
\* SetVolume or Close on a handle on which Close has already been called.
C23_CloseDropsHandle ==
    [][/\ op' = "Close" => currentMusic' = NoMusic
       /\ (currentMusic # NoMusic /\ currentMusic.closed)
          => CallsBeforeNewPlayer(calls') = <<>>
      ]_vars

\* C25: UpdateMusicFiles is safe to call from the watcher thread. For every
\* interleaving of one UpdateMusicFiles call on the watcher thread with the
\* host loop's tick, SkipToNext, SetCurrentIndex and TogglePause, at most one
\* playable handle is open at any time, Close is called at most once on each
\* handle, and no Play, Pause or SetVolume is issued on a closed or absent
\* handle.
C25_UpdateMusicFilesThreadSafe ==
    /\ [](openPlayers <= 1)
    /\ [][(currentMusic = NoMusic \/ currentMusic.closed)
          => CallsBeforeNewPlayer(calls') = <<>>]_vars

SelectorInvariant(s) ==
    \/ s.musicFiles = <<>> /\ s.currentIndex = -1
    \/ s.currentIndex >= 0 /\ s.currentIndex < Len(s.musicFiles)

\* C26: selector operations are atomic under the read/write lock. For every
\* interleaving of Update, SelectNext and SelectIndex on one thread with
\* CurrentFile, CurrentIndex, Files and SelectNext on another, each call
\* observes (when it has the lock) and produces (when it releases it) a
\* state satisfying the selector invariant, its effect and result are those
\* of the whole method run on the state it found, and CurrentFile() never
\* returns a path that is not in the library installed at that moment.
C26_SelectorCallsAtomic ==
    \A t \in Threads :
        LET c == selectorCalls[t]
        IN /\ c.pc = "1" => SelectorInvariant(Sel)
           /\ c.pc \in {"Unlock", "RUnlock"}
              => /\ SelectorInvariant(Sel)
                 /\ Sel = SelectorCallResult(c.entry, c).sel
                 /\ c.result = SelectorCallResult(c.entry, c).result
           /\ (c.method = "CurrentFile" /\ c.pc = "RUnlock" /\ c.result.ok)
              => c.result.path \in Range(musicFiles)

\* the watcher thread is inside Update, between the two assignments, with an
\* index that is out of range for the new list, while the host thread waits
\* in CurrentFile for the lock
C26_Witness ==
    /\ selectorCalls["watcher"].method = "Update"
    /\ selectorCalls["watcher"].pc = "3"
    /\ ~SelectorInvariant(Sel)
    /\ selectorCalls["host"].method = "CurrentFile"
    /\ selectorCalls["host"].pc = "RLock"

\* the loop of watcher i handles the event it has in hand
Handling(i) == watchers[i].loop = "event" /\ watchers'[i].loop # "event"

\* the notifyChange goroutines started by the step for the event in hand
Triggered(i) ==
    {g \in notifying' \ notifying :
        g.dw = i /\ g.event = watchers[i].event.id}

\* every notifyChange that ends has invoked the handler once, for its event,
\* and nothing else invokes a handler
OneInvocationPerRescan ==
    IF \E g \in notifying : g.pc = "callback" /\ g \notin notifying'
    THEN \E g \in notifying :
            /\ g.pc = "callback" /\ g \notin notifying'
            /\ Len(invocations') = Len(invocations) + 1
            /\ SubSeq(invocations', 1, Len(invocations)) = invocations
            /\ invocations'[Len(invocations')].dw = g.dw
            /\ invocations'[Len(invocations')].event = g.event
    ELSE invocations' = invocations

WatchedRoot(i) == CHOOSE md \in MusicDirs : md \in watchers[i].watched

\* C28: the list delivered on a rescan is the content of the watched root.
\* For every MusicDirectory md on which Watch was called, each handler
\* invocation receives the list of supported audio files found by walking
\* md's own directory tree at rescan time, not the content of any other
\* directory.
C28_RescanOfWatchedRoot ==
    [][/\ \A g \in notifying :
            (g.pc = "FindMusicFiles" /\ g \notin notifying')
            => \E h \in notifying' :
                  /\ h = [g EXCEPT !.pc = "callback", !.files = h.files]
                  /\ h.files = FindMusicFiles(WatchedRoot(g.dw), dirs)
       /\ \A g \in notifying :
            (g.pc = "callback" /\ g \notin notifying')
            => /\ Len(invocations') = Len(invocations) + 1
               /\ invocations'[Len(invocations')].files = g.files
      ]_vars

\* the handlers registered, in registration order: Watch is the only
\* registration there is
RegisteredHandlers == [i \in DOMAIN watchers |-> watchers[i].callback]

\* the invocations made by the step
NewInvocations ==
    SubSeq(invocations', Len(invocations) + 1, Len(invocations'))

C30_CloseTerminatesLoop ==
    /\ \A i \in {1} : watchers[i].done ~> watchers[i].loop = "returned"
    /\ [][\A i \in DOMAIN watchers :
              (Handling(i) /\ Triggered(i) # {}) => ~watchers[i].lateEvent
         ]_vars

\* C31: LoadStream releases the file on every failure. Whenever LoadStream
\* returns an error after the file was opened (unsupported extension or
\* decoder rejection) the opened file handle has been closed before it
\* returns and no stream is returned; on success exactly one file handle
\* stays open and is owned by the returned stream.
C31_LoadStreamReleasesFile ==
    [][op' = "LoadStream"
       => /\ ret' # "nil"
             => /\ audioStream' = NoStream
                /\ openFiles' = openFiles
                /\ calls'[1].arg = 1
                   => /\ calls'[Len(calls')].op = "Close"
                      /\ ret' \in {"UnsupportedFormat", "DecodeError"}
          /\ ret' = "nil"
             => /\ audioStream' # NoStream
                /\ openFiles' = Append(openFiles, audioStream'[1])
                /\ \A k \in DOMAIN calls' : calls'[k].op # "Close"
      ]_vars

\* a load was rejected by the decoder while two earlier streams are open
C31_Witness ==
    /\ op = "LoadStream"
    /\ ret = "DecodeError"
    /\ Len(openFiles) = 2
    /\ audioStream = NoStream

\* C38: source streams do not leak. The file opened by a successful
\* LoadStream is closed when its track is replaced by a reload, when the
\* library becomes empty, or when the engine is closed: after any sequence of
\* engine operations at most one source file is open, and none after Close.
C38_SourceStreamsDoNotLeak ==
    /\ Len(openFiles) <= 1
    /\ op = "Close" /\ ret = "nil" => openFiles = <<>>

\* MusicPlayer.GetCurrentPath
GetCurrentPath == CurrentFile(Sel).path

\* C32: the playing track is the selected track. In every state a single
\* caller reaches through ticks, SkipToNext, SetCurrentIndex and
\* UpdateMusicFiles, all loads succeeding, whenever the engine holds an active
\* handle the path it was loaded from is the path CurrentFile() and
\* GetCurrentPath() return.
C32_PlayingTrackIsSelected ==
    loadable = Paths /\ currentMusic # NoMusic
    => /\ CurrentFile(Sel).ok
       /\ currentMusic.path = CurrentFile(Sel).path
       /\ currentMusic.path = GetCurrentPath

\* C33: a library update that keeps the current track does not disturb
\* playback. If the engine has an active handle and the current path occurs
\* in newFiles, UpdateMusicFiles(newFiles) leaves the handle, state, counter,
\* volume and pause flag unchanged and calls nothing on the handle, whatever
\* position the path has in newFiles.
C33_UpdateKeepsPlayback ==
    [][/\ op' = "UpdateMusicFiles"
       /\ currentMusic # NoMusic
       /\ CurrentFile(Sel).ok
       /\ CurrentFile(Sel).path \in Range(musicFiles')
       => /\ currentMusic' = currentMusic
          /\ state' = state
          /\ counter' = counter
          /\ volume' = volume
          /\ isPaused' = isPaused
          /\ calls' = <<>>
      ]_vars

\* C34: silence during the interval. In every state reached by ticks and
\* TogglePause calls, if state = Interval then the handle is not playing: the
\* last transport call made on it is Pause, never Play, until the next track
\* is loaded.
C34_SilentInterval ==
    state = StateInterval /\ currentMusic # NoMusic => ~currentMusic.playing

\* the state changes of the playback cycle
CycleOrder ==
    {<<StatePlaying, StateFadingOut>>, <<StateFadingOut, StateInterval>>,
     <<StateInterval, StatePlaying>>}

\* C39 as stated: a single tick changes the state only along Playing ->
\* FadingOut, FadingOut -> Interval or Interval -> Playing and never skips a
\* state, never enters Stopped while a loadable track is selected and never
\* leaves Stopped; in every tick that does not change the state the counter
\* increases by exactly 1.
C39_TicksFollowCycle ==
    [][op' = "Update"
       => /\ state' # state => <<state, state'>> \in CycleOrder
          /\ CurrentFile(Sel).ok /\ CurrentFile(Sel).path \in loadable
              /\ state # StateStopped
             => state' # StateStopped
          /\ state = StateStopped => state' = StateStopped
          /\ state' = state => counter' = counter + 1
      ]_vars

\* C39 as amended: the same, with the counter (below the largest int)
\* increasing by exactly 1 in every tick on an active handle that is not
\* paused and does not change the state; a tick without a handle or while
\* paused changes neither the state nor the counter.
C39_ActiveTicksFollowCycle ==
    [][op' = "Update"
       => /\ state' # state => <<state, state'>> \in CycleOrder
          /\ CurrentFile(Sel).ok /\ CurrentFile(Sel).path \in loadable
              /\ state # StateStopped
             => state' # StateStopped
          /\ state = StateStopped => state' = StateStopped
          /\ state' = state /\ ~TickIsNoOp /\ counter < MaxInt
             => counter' = counter + 1
          /\ TickIsNoOp => state' = state /\ counter' = counter
      ]_vars

\* a tick has ended the interval and started the next track
C39_Witness ==
    /\ op = "Update"
    /\ state = StatePlaying
    /\ counter = 0
    /\ "NewPlayer" \in CallOps

\* C40: selecting a list item plays that item. When the item-selected
\* callback runs for a valid index i on a library of N >= 2 tracks that load,
\* the engine afterwards has current index i and is Playing the track at
\* index i.
C40_SelectedItemPlays ==
    [][\A index \in 0..(Len(musicFiles) - 1) :
          /\ op' = "ItemSelected"
          /\ Len(musicFiles) >= 2
          /\ AllLoadable
          /\ DoItemSelected(index)
          => /\ currentIndex' = index
             /\ state' = StatePlaying
             /\ currentMusic'.path = musicFiles[index + 1]
             /\ currentMusic'.playing
      ]_vars

\* the events have stopped and every pending rescan has completed: no event
\* is queued or in hand and no notifyChange is running
Quiescent(i) ==
    /\ watchers[i].Events = <<>>
    /\ watchers[i].loop = "select"
    /\ watchers[i].event = NoEvent
    /\ watchers[i].close = "idle"
    /\ notifying = {}

\* the invocations of the handler of watcher i
InvocationsOf(i) == SelectSeq(invocations, LAMBDA v : v.dw = i)

\* C35: the delivered track list catches up with the directory. For every
\* finite sequence of create/remove events, whatever their timing, once the
\* events stop and all pending rescans have completed, the list passed to
\* the handler in its last invocation is the list of the supported files
\* present in the directory at that time.
C35_ListCatchesUp ==
    \A i \in DOMAIN watchers :
        Quiescent(i) /\ InvocationsOf(i) # <<>>
        => InvocationsOf(i)[Len(InvocationsOf(i))].files
               = FindMusicFiles(WatchedRoot(i), dirs)

\* the notifyChange goroutines of watcher i that have scanned and whose
\* call of the handler has not returned
InHandler(i) == {g \in notifying : g.dw = i /\ g.pc = "callback"}

\* C36: handler invocations are serialized in trigger order. At most one
\* handler invocation of a watcher is in progress at any time, and if rescan
\* A was triggered before rescan B the handler receives A's list before B's:
\* the invocations of a watcher are in the order of their events, and no
\* invocation is pending for an event older than one already delivered.
C36_InvocationsInTriggerOrder ==
    \A i \in DOMAIN watchers :
        /\ Cardinality(InHandler(i)) <= 1
        /\ \A j, k \in DOMAIN InvocationsOf(i) :
              j < k => InvocationsOf(i)[j].event < InvocationsOf(i)[k].event
        /\ \A g \in notifying, k \in DOMAIN InvocationsOf(i) :
              g.dw = i => InvocationsOf(i)[k].event < g.event

\* C37: no callback after Close. Once DirectoryWatcher.Close() has returned
\* the registered change handler is not invoked any more, for every
\* interleaving of Close with event delivery and with rescans triggered
\* before Close.
C37_NoCallbackAfterClose ==
    [][\A i \in DOMAIN watchers :
          watchers[i].close = "returned"
          => \A k \in DOMAIN invocations' :
                k > Len(invocations) => invocations'[k].dw # i
      ]_vars

====
